---------------------------- MODULE Spec2Model ----------------------------
(***************************************************************************)
(* Model of rs-libs: the cursor codec (relay/src/cursor.rs), the           *)
(* resolve_connection! macro (relay/src/connection.rs), the opaque ids     *)
(* (relay/src/uuid.rs), the authorization check of the request context     *)
(* (http/src/context.rs) and the database reset                            *)
(* (database/src/migration.rs).                                            *)
(*                                                                         *)
(* A Rust String / &str is modelled as the sequence of its UTF-8 bytes, a  *)
(* base64 text as the sequence of the ASCII codes of its characters.       *)
(***************************************************************************)
EXTENDS Integers, Sequences, FiniteSets, TLC

VARIABLES
    \* ---- cursor codec (cursor.rs) ----
    key,        \* the key argument of to_cursor
    value,      \* the value (order) argument of to_cursor
    cursor,     \* the cursor text handed to from_cursor
    origin,     \* "foreign": cursor supplied from outside, "encoded": made by to_cursor
    decoded,    \* result of from_cursor(cursor), or NotCalled
    \* ---- resolve_connection! (connection.rs) ----
    table,      \* the rows of the queried table
    args,       \* the arguments of the last call: first, after, last, before
    result,     \* what the last call returned, or NotCalled
    is_done,    \* the ids of the rows whose is_done column is true
    walk,       \* a client paging through the table: its direction, page
                \* size, next anchor and the pages received so far
    \* ---- Context::ensure_is_authorized (context.rs) ----
    auth,       \* the context's user, the roles argument and the outcome
    \* ---- reset (migration.rs) ----
    db          \* the configuration, the database actions performed and
                \* the outcome

codecVars == <<key, value, cursor, origin, decoded>>
connVars == <<table, args, result>>
otherVars == <<is_done, walk, auth, db>>
vars == <<key, value, cursor, origin, decoded, table, args, result,
          is_done, walk, auth, db>>

None == [some |-> FALSE]
Some(x) == [some |-> TRUE, val |-> x]
NotCalled == [called |-> FALSE]

-----------------------------------------------------------------------------
(* Bounds of the model *)

\* longest key / value string, and longest raw text behind a foreign cursor
MaxLen == 2

\* ids of the rows: 1..MaxKey
MaxKey == 3

\* created_at values of the rows: 1..MaxOrder
MaxOrder == 2

\* largest explicit first / last argument
MaxLimit == 2

\* longest roles vector handed to ensure_is_authorized
MaxRoles == 2

\* longest database name built from the characters of "_dev"
MaxNameLen == 4

\* most rows other processes insert or delete during one traversal
MaxWrites == 2

\* width of usize in bits (scaled down from 64; every count of the model is
\* far below 2^UsizeBits)
UsizeBits == 16

-----------------------------------------------------------------------------
(* base64 (the base64 crate's STANDARD alphabet, as used by cursor.rs) *)

Colon == 58
Pad == 61

\* character of the standard alphabet for a 6-bit value
B64Char(i) ==
    IF i < 26 THEN 65 + i
    ELSE IF i < 52 THEN 97 + (i - 26)
    ELSE IF i < 62 THEN 48 + (i - 52)
    ELSE IF i = 62 THEN 43 ELSE 47

\* 6-bit value of a character, -1 when it is not in the alphabet
B64Val(c) ==
    IF c >= 65 /\ c <= 90 THEN c - 65
    ELSE IF c >= 97 /\ c <= 122 THEN c - 97 + 26
    ELSE IF c >= 48 /\ c <= 57 THEN c - 48 + 52
    ELSE IF c = 43 THEN 62
    ELSE IF c = 47 THEN 63 ELSE -1

RECURSIVE Base64Encode(_)
Base64Encode(b) ==
    IF Len(b) = 0 THEN <<>>
    ELSE IF Len(b) = 1 THEN
        <<B64Char(b[1] \div 4), B64Char((b[1] % 4) * 16), Pad, Pad>>
    ELSE IF Len(b) = 2 THEN
        <<B64Char(b[1] \div 4),
          B64Char((b[1] % 4) * 16 + (b[2] \div 16)),
          B64Char((b[2] % 16) * 4), Pad>>
    ELSE
        <<B64Char(b[1] \div 4),
          B64Char((b[1] % 4) * 16 + (b[2] \div 16)),
          B64Char((b[2] % 16) * 4 + (b[3] \div 64)),
          B64Char(b[3] % 64)>> \o Base64Encode(SubSeq(b, 4, Len(b)))

\* the text without its trailing padding (at most two '=')
StripPad(c) ==
    IF Len(c) >= 2 /\ c[Len(c)] = Pad /\ c[Len(c) - 1] = Pad
        THEN SubSeq(c, 1, Len(c) - 2)
    ELSE IF Len(c) >= 1 /\ c[Len(c)] = Pad
        THEN SubSeq(c, 1, Len(c) - 1)
    ELSE c

\* bytes of a sequence of 6-bit values whose length is not 1 modulo 4
RECURSIVE DecodeQuads(_)
DecodeQuads(v) ==
    IF Len(v) < 2 THEN <<>>
    ELSE IF Len(v) = 2 THEN <<v[1] * 4 + (v[2] \div 16)>>
    ELSE IF Len(v) = 3 THEN
        <<v[1] * 4 + (v[2] \div 16), (v[2] % 16) * 16 + (v[3] \div 4)>>
    ELSE
        <<v[1] * 4 + (v[2] \div 16),
          (v[2] % 16) * 16 + (v[3] \div 4),
          (v[3] % 4) * 64 + v[4]>> \o DecodeQuads(SubSeq(v, 5, Len(v)))

\* the bits of the last symbol that encode no byte
TrailingBits(v) ==
    IF Len(v) % 4 = 2 THEN v[Len(v)] % 16
    ELSE IF Len(v) % 4 = 3 THEN v[Len(v)] % 4
    ELSE 0

\* base64::decode. The texts the model feeds it are padded to a multiple of
\* four characters or are plainly malformed (a symbol outside the alphabet, a
\* single trailing symbol, non-zero trailing bits).
Base64Decode(c) ==
    LET body == StripPad(c)
        v == [i \in 1..Len(body) |-> B64Val(body[i])]
    IN  IF \E i \in 1..Len(body) : v[i] = -1
            THEN [ok |-> FALSE, err |-> "InvalidByte"]
        ELSE IF Len(body) % 4 = 1
            THEN [ok |-> FALSE, err |-> "InvalidLength"]
        ELSE IF TrailingBits(v) # 0
            THEN [ok |-> FALSE, err |-> "InvalidLastSymbol"]
        ELSE [ok |-> TRUE, bytes |-> DecodeQuads(v)]

-----------------------------------------------------------------------------
(* UTF-8 (String::from_utf8, cursor.rs line 32) *)

IsCont(b) == b >= 128 /\ b <= 191

RECURSIVE IsUtf8(_)
IsUtf8(b) ==
    IF Len(b) = 0 THEN TRUE
    ELSE IF b[1] < 128 THEN IsUtf8(Tail(b))
    ELSE IF b[1] >= 194 /\ b[1] <= 223 THEN
        /\ Len(b) >= 2
        /\ IsCont(b[2])
        /\ IsUtf8(SubSeq(b, 3, Len(b)))
    ELSE IF b[1] >= 224 /\ b[1] <= 239 THEN
        /\ Len(b) >= 3
        /\ IsCont(b[2])
        /\ (b[1] = 224 => b[2] >= 160)
        /\ (b[1] = 237 => b[2] <= 159)
        /\ IsCont(b[3])
        /\ IsUtf8(SubSeq(b, 4, Len(b)))
    ELSE IF b[1] >= 240 /\ b[1] <= 244 THEN
        /\ Len(b) >= 4
        /\ IsCont(b[2])
        /\ (b[1] = 240 => b[2] >= 144)
        /\ (b[1] = 244 => b[2] <= 143)
        /\ IsCont(b[3])
        /\ IsCont(b[4])
        /\ IsUtf8(SubSeq(b, 5, Len(b)))
    ELSE FALSE

-----------------------------------------------------------------------------
(* cursor.rs *)

\* mutant of SplitN2: cuts at the last separator (rsplitn)
RECURSIVE SplitAtLast(_, _)
SplitAtLast(head, rest) ==
    IF Len(rest) = 0 THEN <<head>>
    ELSE IF rest[1] = Colon /\ \A i \in 2..Len(rest) : rest[i] # Colon
        THEN <<head, Tail(rest)>>
    ELSE SplitAtLast(Append(head, rest[1]), Tail(rest))

\* str::splitn(2, ':'): at most two parts, cut at the first separator
RECURSIVE SplitN2(_, _)
SplitN2(head, rest) ==
    IF Len(rest) = 0 THEN <<head>>
    ELSE IF rest[1] = Colon THEN <<head, Tail(rest)>>
    ELSE SplitN2(Append(head, rest[1]), Tail(rest))

CursorOk(k, v) == [ok |-> TRUE, key |-> k, order |-> v]
CursorErr(e) == [ok |-> FALSE, err |-> e]

\* mutant of to_cursor: the two parts written in the wrong order
to_cursor_swapped(k, v) == Base64Encode(v \o <<Colon>> \o k)

\* pub fn to_cursor(key: &str, value: &str) -> String
to_cursor(k, v) == Base64Encode(k \o <<Colon>> \o v)

\* pub fn from_cursor(cursor: &str) -> CursorResult<(String, String)>
from_cursor(c) ==
    LET raw == Base64Decode(c)
    IN  IF ~raw.ok THEN CursorErr(<<"Decoded", raw.err>>)
        ELSE IF ~IsUtf8(raw.bytes) THEN CursorErr(<<"FromUtf8">>)
        ELSE LET data == SplitN2(<<>>, raw.bytes)
             IN  IF Len(data) = 2 THEN CursorOk(data[1], data[2])
                 ELSE CursorErr(<<"InvalidFormat">>)


-----------------------------------------------------------------------------
(* uuid.rs. A Uuid is the sequence of its 16 bytes; blob_uuid's token of a   *)
(* Uuid is the URL-safe base64 text of these bytes, without padding.         *)

UuidLen == 16

\* the URL-safe alphabet writes '-' for '+' and '_' for '/'
UrlSafe(c) == IF c = 43 THEN 45 ELSE IF c = 47 THEN 95 ELSE c

\* the standard character of a URL-safe one; '+', '/' and '=' are not part of
\* the URL-safe alphabet without padding and map to no character (0)
FromUrlSafe(c) ==
    IF c = 45 THEN 43
    ELSE IF c = 95 THEN 47
    ELSE IF c = 43 \/ c = 47 \/ c = Pad THEN 0
    ELSE c

\* mutant of to_blob: the standard alphabet, with padding
to_blob_standard(u) == Base64Encode(u)

\* blob_uuid::to_blob
to_blob(u) ==
    LET text == StripPad(Base64Encode(u))
    IN  [i \in 1..Len(text) |-> UrlSafe(text[i])]

\* blob_uuid::to_uuid: the token must decode, and to exactly 16 bytes
to_uuid(blob) ==
    LET raw == Base64Decode([i \in 1..Len(blob) |-> FromUrlSafe(blob[i])])
    IN  IF ~raw.ok THEN [ok |-> FALSE]
        ELSE IF Len(raw.bytes) # UuidLen THEN [ok |-> FALSE]
        ELSE [ok |-> TRUE, uuid |-> raw.bytes]

IdOk(t, u) == [ok |-> TRUE, type_name |-> t, uuid |-> u]
IdErr(e) == [ok |-> FALSE, err |-> e]

\* pub fn to_id(type_name: &str, id: &Uuid) -> ID
to_id(type_name, id) == to_cursor(type_name, to_blob(id))

\* pub fn from_id(id: &ID) -> UuidResult<(String, Uuid)>
from_id(id) ==
    LET c == from_cursor(id)
    IN  IF ~c.ok THEN IdErr(<<"Cusor", c.err>>)
        ELSE LET u == to_uuid(c.order)
             IN  IF ~u.ok THEN IdErr(<<"Convert">>)
                 ELSE IdOk(c.key, u.uuid)

-----------------------------------------------------------------------------
(* connection.rs: the callbacks of the test module *)

Keys == 1..MaxKey
Orders == 1..MaxOrder

\* struct Todo, reduced to the two columns the macro reads
Row(k, o) == [id |-> k, created_at |-> o]
Todos == {Row(k, o) : k \in Keys, o \in Orders}

IsDigit(c) == c >= 48 /\ c <= 57

\* id.to_string(): one decimal digit
KeyText(k) == <<48 + k>>

\* created_at.to_rfc3339(): a text that itself contains ':' ("<digit>:0")
OrderText(o) == <<48 + o, Colon, 48>>

\* fn to_todo_cursor(todo: &Todo) -> (String, String)
to_todo_cursor(row) == <<KeyText(row.id), OrderText(row.created_at)>>

\* fn from_todo_cursor(key_value, order_value) -> ConnectionResult<(Uuid, DateTime<Utc>)>
from_todo_cursor(key_value, order_value) ==
    IF ~(Len(key_value) = 1 /\ IsDigit(key_value[1]))
        THEN [ok |-> FALSE, err |-> <<"Custom", "key">>]
    ELSE IF ~(/\ Len(order_value) = 3
              /\ IsDigit(order_value[1])
              /\ order_value[2] = Colon
              /\ order_value[3] = 48)
        THEN [ok |-> FALSE, err |-> <<"Custom", "order">>]
    ELSE [ok |-> TRUE, key |-> key_value[1] - 48, order |-> order_value[1] - 48]

-----------------------------------------------------------------------------
(* connection.rs: the query the macro builds, as the database answers it *)

\* (created_at, id) of a is before that of b
RowLess(a, b) ==
    \/ a.created_at < b.created_at
    \/ a.created_at = b.created_at /\ a.id < b.id

\* mutant of OrderBy: the rows are ordered by id alone
RECURSIVE OrderByKeyOnly(_, _)
OrderByKeyOnly(rows, desc) ==
    IF rows = {} THEN <<>>
    ELSE LET head == CHOOSE r \in rows : \A q \in rows \ {r} :
                        IF desc THEN q.id < r.id ELSE r.id < q.id
         IN  <<head>> \o OrderByKeyOnly(rows \ {head}, desc)

\* .order((created_at.asc(), id.asc())) / .order((created_at.desc(), id.desc()))
RECURSIVE OrderBy(_, _)
OrderBy(rows, desc) ==
    IF rows = {} THEN <<>>
    ELSE LET head == CHOOSE r \in rows : \A q \in rows \ {r} :
                        IF desc THEN RowLess(q, r) ELSE RowLess(r, q)
         IN  <<head>> \o OrderBy(rows \ {head}, desc)

\* mutant of AnchorFilter: the anchor row itself passes the filter (ge / le)
AnchorFilterInclusive(rows, backward, k, o) ==
    {r \in rows :
        IF backward
            THEN r.created_at < o \/ (r.created_at = o /\ r.id <= k)
            ELSE r.created_at > o \/ (r.created_at = o /\ r.id >= k)}

\* mutant of AnchorFilter: the or_filter on equal created_at is missing
AnchorFilterNoTie(rows, backward, k, o) ==
    {r \in rows : IF backward THEN r.created_at < o ELSE r.created_at > o}

\* .filter(created_at.gt(o)).or_filter(created_at.eq(o).and(id.gt(k))), and
\* its mirror with lt, on a query that has no other filter
AnchorFilter(rows, backward, k, o) ==
    {r \in rows :
        IF backward
            THEN r.created_at < o \/ (r.created_at = o /\ r.id < k)
            ELSE r.created_at > o \/ (r.created_at = o /\ r.id > k)}

\* mutant of Limit: no lookahead row (limit instead of limit + 1)
LimitNoLookahead(seq, n) == SubSeq(seq, 1, IF n - 1 < Len(seq) THEN n - 1 ELSE Len(seq))

\* .limit(n)
Limit(seq, n) == SubSeq(seq, 1, IF n < Len(seq) THEN n ELSE Len(seq))

\* mutant of Reverse: the rows are left in query order
NoReverse(seq) == seq

Reverse(seq) == [i \in 1..Len(seq) |-> seq[Len(seq) + 1 - i]]

\* Vec::remove(index), index counted from 0
Remove(seq, index) ==
    SubSeq(seq, 1, index) \o SubSeq(seq, index + 2, Len(seq))

UsizeMod == 2 ^ UsizeBits

DefaultLimit == 40

unwrap_or(opt, d) == IF opt.some THEN opt.val ELSE d

-----------------------------------------------------------------------------
(* connection.rs: resolve_connection! *)

\* mutant of Backward: after is not looked at
BackwardIgnoringAfter(first, after, last, before) ==
    (last.some \/ before.some) /\ ~first.some

\* lines 32-33
Backward(first, after, last, before) ==
    (last.some \/ before.some) /\ ~first.some /\ ~after.some

\* mutant of PlanLimit: the limit raised to at least 1
PlanLimitAtLeastOne(first, after, last, before) ==
    LET given == IF Backward(first, after, last, before)
                    THEN unwrap_or(last, DefaultLimit)
                    ELSE unwrap_or(first, DefaultLimit)
    IN  IF given < 1 THEN 1 ELSE given

\* lines 35-39, the limit
PlanLimit(first, after, last, before) ==
    IF Backward(first, after, last, before)
        THEN unwrap_or(last, DefaultLimit)
        ELSE unwrap_or(first, DefaultLimit)

\* lines 35-39, the cursor
PlanCursor(first, after, last, before) ==
    IF Backward(first, after, last, before) THEN before ELSE after

\* mutant of DecodeAnchor: a cursor that does not decode becomes a default anchor
DecodeAnchorOrDefault(c) ==
    LET parts == from_cursor(c)
        conv == IF parts.ok THEN from_todo_cursor(parts.key, parts.order)
                            ELSE [ok |-> FALSE]
    IN  IF conv.ok THEN conv ELSE [ok |-> TRUE, key |-> 0, order |-> 0]

\* lines 43-45: the anchor, decoded by the crate and then by the callback
DecodeAnchor(c) ==
    LET parts == from_cursor(c)
    IN  IF ~parts.ok THEN [ok |-> FALSE, err |-> <<"Cursor", parts.err>>]
        ELSE from_todo_cursor(parts.key, parts.order)

\* lines 64-69: a loaded row with its cursor
Edge(row) ==
    LET parts == to_todo_cursor(row)
    IN  [cursor |-> to_cursor(parts[1], parts[2]), node |-> row]

\* cursors of rows, present in the table or not
RowCursors == {Edge(r).cursor : r \in Todos}

\* cursors that do not decode: "M" (not base64), base64 of a lone 0xC3 (not
\* UTF-8), base64 of "a" (no separator), and cursors whose key or order text
\* the callback rejects
BadCursors ==
    { <<77>>,
      Base64Encode(<<195>>),
      Base64Encode(<<97>>),
      to_cursor(<<97>>, OrderText(1)),
      to_cursor(KeyText(1), <<97>>) }

\* Edge and DecodeAnchor tabulated over the rows and cursors of the model
EdgeOf == [r \in Todos |-> Edge(r)]
AnchorOf == [c \in RowCursors \cup BadCursors |-> DecodeAnchor(c)]

\* mutant of Trim: index 0 is removed in both directions
TrimFirst(nodes, backward, limit, checks) ==
    LET has_more == Len(nodes) > limit
    IN  [panic |-> FALSE,
         has_more |-> has_more,
         nodes |-> IF has_more THEN Remove(nodes, 0) ELSE nodes]

\* lines 77-83: has_more, remove_index and the removal. len - 1 is a usize
\* subtraction: on an empty forward result it panics in a build with overflow
\* checks and wraps without them.
Trim(nodes, backward, limit, checks) ==
    LET len == Len(nodes)
        has_more == len > limit
        underflow == ~backward /\ len = 0
        remove_index == IF backward THEN 0 ELSE (len - 1) % UsizeMod
    IN  IF underflow /\ checks THEN [panic |-> TRUE]
        ELSE [panic |-> FALSE,
              has_more |-> has_more,
              nodes |-> IF has_more THEN Remove(nodes, remove_index) ELSE nodes]

\* mutant of PageInfo: a forward page also reports its first edge's cursor
PageInfoBothEnds(nodes, backward, has_more) ==
    [has_previous_page |-> backward /\ has_more,
     has_next_page |-> ~backward /\ has_more,
     start_cursor |-> IF Len(nodes) = 0 THEN None ELSE Some(nodes[1].cursor),
     end_cursor |-> IF backward \/ Len(nodes) = 0 THEN None
                    ELSE Some(nodes[Len(nodes)].cursor)]

\* lines 85-103
PageInfo(nodes, backward, has_more) ==
    IF backward
        THEN [has_previous_page |-> has_more,
              has_next_page |-> FALSE,
              start_cursor |-> IF Len(nodes) = 0 THEN None ELSE Some(nodes[1].cursor),
              end_cursor |-> None]
        ELSE [has_previous_page |-> FALSE,
              has_next_page |-> has_more,
              start_cursor |-> None,
              end_cursor |-> IF Len(nodes) = 0 THEN None
                             ELSE Some(nodes[Len(nodes)].cursor)]

\* the whole macro, on the rows tbl of the queried table; checks tells whether
\* the build has integer overflow checks
resolve_connection(tbl, first, after, last, before, checks) ==
    LET backward == Backward(first, after, last, before)
        limit == PlanLimit(first, after, last, before)
        anchor == PlanCursor(first, after, last, before)
        dec == IF anchor.some THEN AnchorOf[anchor.val] ELSE [ok |-> TRUE]
    IN  IF ~dec.ok THEN [called |-> TRUE, kind |-> "err", err |-> dec.err, loads |-> <<>>]
        ELSE
        LET n == (limit + 1) % UsizeMod
            filtered == IF anchor.some
                            THEN AnchorFilter(tbl, backward, dec.key, dec.order)
                            ELSE tbl
            loaded == Limit(OrderBy(filtered, backward), n)
            rows == [i \in 1..Len(loaded) |-> EdgeOf[loaded[i]]]
            nodes == IF backward THEN Reverse(rows) ELSE rows
            trimmed == Trim(nodes, backward, limit, checks)
            load == [limit |-> n, desc |-> backward,
                     anchor |-> IF anchor.some
                                    THEN Some([id |-> dec.key, created_at |-> dec.order])
                                    ELSE None,
                     rows |-> loaded]
        IN  IF trimmed.panic
                THEN [called |-> TRUE, kind |-> "panic", loads |-> <<load>>]
                ELSE [called |-> TRUE, kind |-> "ok",
                      page_info |-> PageInfo(trimmed.nodes, backward, trimmed.has_more),
                      nodes |-> trimmed.nodes,
                      loads |-> <<load>>]

-----------------------------------------------------------------------------
(* connection.rs: resolve_connection! on a $table that may already carry a  *)
(* WHERE clause of the caller (diesel's boxed query: filter adds with AND,  *)
(* or_filter adds with OR, to the whole clause built so far).               *)

\* predicates over a row
IsDone == [op |-> "is_done"]
Gt(col, v) == [op |-> "gt", col |-> col, val |-> v]
Lt(col, v) == [op |-> "lt", col |-> col, val |-> v]
Eq(col, v) == [op |-> "eq", col |-> col, val |-> v]
And(l, r) == [op |-> "and", l |-> l, r |-> r]
Or(l, r) == [op |-> "or", l |-> l, r |-> r]

Col(row, col) == IF col = "id" THEN row.id ELSE row.created_at

\* the row satisfies the predicate; done holds the ids whose is_done is true
RECURSIVE Holds(_, _, _)
Holds(p, row, done) ==
    IF p.op = "and" THEN Holds(p.l, row, done) /\ Holds(p.r, row, done)
    ELSE IF p.op = "or" THEN Holds(p.l, row, done) \/ Holds(p.r, row, done)
    ELSE IF p.op = "is_done" THEN row.id \in done
    ELSE IF p.op = "gt" THEN Col(row, p.col) > p.val
    ELSE IF p.op = "lt" THEN Col(row, p.col) < p.val
    ELSE Col(row, p.col) = p.val

\* .filter(p) on a boxed query
filter(where, p) == IF where.some THEN Some(And(where.val, p)) ELSE Some(p)

\* .or_filter(p) on a boxed query
or_filter(where, p) == IF where.some THEN Some(Or(where.val, p)) ELSE Some(p)

\* lines 47-55 on the WHERE clause of $table
AnchorWhere(where, backward, k, o) ==
    IF backward
        THEN or_filter(filter(where, Lt("created_at", o)),
                       And(Eq("created_at", o), Lt("id", k)))
        ELSE or_filter(filter(where, Gt("created_at", o)),
                       And(Eq("created_at", o), Gt("id", k)))

\* the rows the database selects
Select(tbl, done, where) ==
    IF where.some THEN {r \in tbl : Holds(where.val, r, done)} ELSE tbl

\* lines 58-64: the query with its WHERE clause, ORDER BY and LIMIT, as the
\* database answers it
Query(tbl, done, clause, backward, n) ==
    Limit(OrderBy(Select(tbl, done, clause), backward), n)

\* lines 64-69: an edge per row
Edges(loaded) == [i \in 1..Len(loaded) |-> EdgeOf[loaded[i]]]

\* lines 85-109, from the trimmed nodes
Outcome(trimmed, backward, load) ==
    IF trimmed.panic
        THEN [called |-> TRUE, kind |-> "panic", loads |-> <<load>>]
        ELSE [called |-> TRUE, kind |-> "ok",
              page_info |-> PageInfo(trimmed.nodes, backward, trimmed.has_more),
              nodes |-> trimmed.nodes,
              loads |-> <<load>>]

\* lines 64-109, from the rows the query returned
Answer(loaded, backward, limit, n, anchor, checks) ==
    Outcome(Trim(IF backward THEN Reverse(Edges(loaded)) ELSE Edges(loaded),
                 backward, limit, checks),
            backward,
            [limit |-> n, desc |-> backward, anchor |-> anchor, rows |-> loaded])

\* lines 43-109, from the decoded anchor
Anchored(tbl, done, where, backward, limit, dec, checks) ==
    IF ~dec.ok THEN [called |-> TRUE, kind |-> "err", err |-> dec.err, loads |-> <<>>]
    ELSE Answer(Query(tbl, done, AnchorWhere(where, backward, dec.key, dec.order),
                      backward, (limit + 1) % UsizeMod),
                backward, limit, (limit + 1) % UsizeMod,
                Some([id |-> dec.key, created_at |-> dec.order]), checks)

\* lines 41-109, from the direction, limit and anchor of lines 32-39
Planned(tbl, done, where, backward, limit, anchor, checks) ==
    IF anchor.some
        THEN Anchored(tbl, done, where, backward, limit, AnchorOf[anchor.val], checks)
        ELSE Answer(Query(tbl, done, where, backward, (limit + 1) % UsizeMod),
                    backward, limit, (limit + 1) % UsizeMod, None, checks)

\* the whole macro, on the rows tbl with is_done column done, for a $table
\* whose WHERE clause is where
resolve_connection_where(tbl, done, where, first, after, last, before, checks) ==
    Planned(tbl, done, where,
            Backward(first, after, last, before),
            PlanLimit(first, after, last, before),
            PlanCursor(first, after, last, before),
            checks)

-----------------------------------------------------------------------------
(* Calls of resolve_connection over a table *)

\* a table holds each id at most once (id is the primary key)
Tables == {t \in SUBSET Todos : \A a \in t, b \in t : a.id = b.id => a = b}

\* Option<usize> arguments
LimitArgs == {None} \cup {Some(n) : n \in 0..MaxLimit}

\* Option<String> arguments
AnchorArgs == {None} \cup {Some(c) : c \in RowCursors \cup BadCursors}

InitCodecIdle ==
    /\ key = <<>>
    /\ value = <<>>
    /\ cursor = <<>>
    /\ origin = "foreign"
    /\ decoded = NotCalled

\* no caller filter, no paging client, no authorization check, no reset
InitWalkIdle == walk = NotCalled
InitAuthIdle == auth = NotCalled
InitDbIdle == db = NotCalled

Init ==
    /\ table \in Tables
    /\ args = NotCalled
    /\ result = NotCalled
    /\ is_done = {}
    /\ InitCodecIdle
    /\ InitWalkIdle
    /\ InitAuthIdle
    /\ InitDbIdle

\* one call of the function that expands resolve_connection! (test module,
\* fn resolve_connection), made when no earlier call's page is held
ResolveConnection(first, after, last, before, checks) ==
    /\ ~result.called
    /\ args' = [called |-> TRUE, first |-> first, after |-> after,
                last |-> last, before |-> before]
    /\ result' = resolve_connection(table, first, after, last, before, checks)
    /\ UNCHANGED <<table, codecVars, otherVars>>

\* the caller has consumed the outcome of the call and drops it
Drop ==
    /\ result.called
    /\ args' = NotCalled
    /\ result' = NotCalled
    /\ UNCHANGED <<table, codecVars, otherVars>>

Next ==
    \/ /\ ~result.called
       /\ \E first \in LimitArgs, last \in LimitArgs,
             after \in AnchorArgs, before \in AnchorArgs, checks \in BOOLEAN :
                ResolveConnection(first, after, last, before, checks)
    \/ Drop

Spec == Init /\ [][Next]_vars

-----------------------------------------------------------------------------
(* What a call asks for, read from its arguments *)

\* the call is one that should page backward
AskedBackward ==
    (args.last.some \/ args.before.some) /\ ~args.first.some /\ ~args.after.some

AskedLimit ==
    IF AskedBackward
        THEN (IF args.last.some THEN args.last.val ELSE 40)
        ELSE (IF args.first.some THEN args.first.val ELSE 40)

AskedAnchor == IF AskedBackward THEN args.before ELSE args.after

\* the cursor of the row (k, o)
CursorFor(k, o) == EdgeOf[Row(k, o)].cursor

\* row a comes before row b in (created_at, id) order
KeysetLess(a, b) ==
    \/ a.created_at < b.created_at
    \/ a.created_at = b.created_at /\ a.id < b.id

\* the row whose cursor is c, for the cursors of rows
RowOfCursor == [c \in RowCursors |-> CHOOSE r \in Todos : c = CursorFor(r.id, r.created_at)]

\* the rows of the table strictly beyond the asked anchor in the asked
\* direction: all of them without anchor, none when the anchor is no row's cursor
Eligible ==
    IF ~AskedAnchor.some THEN table
    ELSE IF AskedAnchor.val \notin RowCursors THEN {}
    ELSE LET a == RowOfCursor[AskedAnchor.val]
         IN  {r \in table : IF AskedBackward THEN KeysetLess(r, a) ELSE KeysetLess(a, r)}

PageRows == {result.nodes[i].node : i \in 1..Len(result.nodes)}

Min(a, b) == IF a < b THEN a ELSE b

Returned == result.called /\ result.kind = "ok"

Ascending(nodes) ==
    \A i \in 1..Len(nodes), j \in 1..Len(nodes) :
        i < j => KeysetLess(nodes[i].node, nodes[j].node)

AskedFlag ==
    IF AskedBackward THEN result.page_info.has_previous_page
                     ELSE result.page_info.has_next_page

-----------------------------------------------------------------------------
(* Claims about resolve_connection! *)

\* C3: a call runs backward exactly when last or before is present and first
\* and after are both absent; backward queries with limit last (default 40)
\* and anchor before, every other call with limit first (default 40) and
\* anchor after. Seen in the query the call issues: its direction, its LIMIT
\* (limit + 1) and its anchor.
C3_Planning ==
    (result.called /\ result.kind # "err") =>
        LET load == result.loads[1]
        IN  /\ load.desc = AskedBackward
            /\ load.limit = AskedLimit + 1
            /\ load.anchor.some = AskedAnchor.some
            /\ load.anchor.some =>
                 AskedAnchor.val = CursorFor(load.anchor.val.id,
                                             load.anchor.val.created_at)

\* C3 witness: first together with last and before runs forward without anchor
C3_Witness ==
    /\ Returned
    /\ args.first.some /\ args.last.some /\ args.before.some /\ ~args.after.some
    /\ args.first.val # args.last.val
    /\ ~result.loads[1].desc
    /\ result.loads[1].limit = args.first.val + 1
    /\ ~result.loads[1].anchor.some

\* C4: the page of a forward call holds exactly the first min(limit, m) of the
\* m rows strictly after the anchor in (created_at, id) order, ascending.
C4_ForwardPage ==
    (Returned /\ ~AskedBackward) =>
        /\ Len(result.nodes) = Min(AskedLimit, Cardinality(Eligible))
        /\ PageRows \subseteq Eligible
        /\ Ascending(result.nodes)
        /\ \A p \in PageRows, r \in Eligible \ PageRows : KeysetLess(p, r)

\* C4 witness: a forward page after an anchor, with a row tied with the anchor
\* on created_at left out and a row beyond the page
C4_Witness ==
    /\ Returned /\ ~AskedBackward /\ args.after.some
    /\ Len(result.nodes) >= 1
    /\ Cardinality(Eligible) > Len(result.nodes)
    /\ \E r \in table \ Eligible, k \in Keys :
            /\ args.after.val = CursorFor(k, r.created_at)
            /\ r.id < k

\* C5: the page of a backward call holds exactly the min(limit, m) rows
\* closest to the anchor among the m rows strictly before it (the last rows
\* of the table without anchor), in ascending order.
C5_BackwardPage ==
    (Returned /\ AskedBackward) =>
        /\ Len(result.nodes) = Min(AskedLimit, Cardinality(Eligible))
        /\ PageRows \subseteq Eligible
        /\ Ascending(result.nodes)
        /\ \A p \in PageRows, r \in Eligible \ PageRows : KeysetLess(r, p)

\* C5 witness: a backward page of two rows before an anchor, one row left over
C5_Witness ==
    /\ Returned /\ AskedBackward /\ args.before.some
    /\ Len(result.nodes) = 2
    /\ Cardinality(Eligible) > 2

\* C6: a page has at most limit edges, and the flag of the asked direction is
\* true exactly when more than limit rows are eligible, that is when an
\* eligible row lies off the page.
C6_Lookahead ==
    Returned =>
        /\ Len(result.nodes) <= AskedLimit
        /\ AskedFlag = (Cardinality(Eligible) > AskedLimit)
        /\ AskedFlag = (Eligible \ PageRows # {})

\* C6 witness: a full page with the flag set
C6_Witness ==
    /\ Returned
    /\ AskedFlag
    /\ AskedLimit >= 1
    /\ Len(result.nodes) = AskedLimit

\* the boundary cursor c is that of the row of the page farthest in the
\* direction of travel, one of the first limit eligible rows
BoundaryOnPage(c) ==
    \E r \in PageRows :
        /\ c = Some(CursorFor(r.id, r.created_at))
        /\ \A p \in PageRows \ {r} :
                IF AskedBackward THEN KeysetLess(r, p) ELSE KeysetLess(p, r)
        /\ Cardinality({e \in Eligible :
                IF AskedBackward THEN KeysetLess(r, e) ELSE KeysetLess(e, r)})
             < AskedLimit

\* C7: a forward call reports has_previous_page = false and start_cursor =
\* None, and end_cursor is the cursor of the last edge of the page; a backward
\* call reports has_next_page = false and end_cursor = None, and start_cursor
\* is the cursor of the first edge; the boundary cursor belongs to a row on
\* the page, never to the lookahead row (None on an empty page).
C7_PageInfo ==
    Returned =>
        LET info == result.page_info
            nodes == result.nodes
        IN  IF AskedBackward
            THEN /\ ~info.has_next_page
                 /\ info.end_cursor = None
                 /\ IF Len(nodes) = 0 THEN info.start_cursor = None
                    ELSE /\ info.start_cursor = Some(nodes[1].cursor)
                         /\ BoundaryOnPage(info.start_cursor)
            ELSE /\ ~info.has_previous_page
                 /\ info.start_cursor = None
                 /\ IF Len(nodes) = 0 THEN info.end_cursor = None
                    ELSE /\ info.end_cursor = Some(nodes[Len(nodes)].cursor)
                         /\ BoundaryOnPage(info.end_cursor)

\* C7 witness: a forward page that was trimmed, with its end cursor
C7_Witness ==
    /\ Returned /\ ~AskedBackward
    /\ result.page_info.has_next_page
    /\ Len(result.nodes) = 2
    /\ result.page_info.end_cursor.some

\* C8: a call for which no row is eligible completes and returns an empty page
\* with both flags false and both cursors None.
C8_EmptyResult ==
    (result.called /\ result.kind # "err" /\ Eligible = {}) =>
        /\ result.kind = "ok"
        /\ result.nodes = <<>>
        /\ result.page_info = [has_previous_page |-> FALSE,
                               has_next_page |-> FALSE,
                               start_cursor |-> None,
                               end_cursor |-> None]

ExpectedAnchorError(c) ==
    IF c = <<77>> THEN <<"Cursor", <<"Decoded", "InvalidLength">>>>
    ELSE IF c = Base64Encode(<<195>>) THEN <<"Cursor", <<"FromUtf8">>>>
    ELSE IF c = Base64Encode(<<97>>) THEN <<"Cursor", <<"InvalidFormat">>>>
    ELSE IF c = to_cursor(<<97>>, OrderText(1)) THEN <<"Custom", "key">>
    ELSE <<"Custom", "order">>

\* C10: when the anchor selected for the call does not decode, or the callback
\* rejects its parts, the call returns that error, issues no query and returns
\* no page; an anchor that decodes never gives an error.
C10_AnchorFailure ==
    result.called =>
        IF AskedAnchor.some /\ AskedAnchor.val \in BadCursors
            THEN /\ result.kind = "err"
                 /\ result.err = ExpectedAnchorError(AskedAnchor.val)
                 /\ result.loads = <<>>
                 /\ DOMAIN result = {"called", "kind", "err", "loads"}
            ELSE result.kind # "err"

\* C10 witness: a backward call whose before cursor the callback rejects
C10_Witness ==
    /\ result.called
    /\ AskedBackward
    /\ args.before.some
    /\ result.kind = "err"
    /\ result.err[1] = "Custom"

\* the rows the query of the call returned, in query order
Loaded == result.loads[1].rows

\* the rows of the page, in page order
PageSeq == [i \in 1..Len(result.nodes) |-> result.nodes[i].node]

\* the rows come in (created_at, id) order, ascending or descending on both
Sorted(rows, desc) ==
    \A i \in 1..Len(rows), j \in 1..Len(rows) :
        i < j => IF desc THEN KeysetLess(rows[j], rows[i])
                         ELSE KeysetLess(rows[i], rows[j])

\* the one query of a call: limit + 1 rows, sorted by (created_at, id),
\* ascending when forward and descending on both when backward
OneSortedLoad ==
    /\ Len(result.loads) = 1
    /\ result.loads[1].limit = AskedLimit + 1
    /\ result.loads[1].desc = AskedBackward
    /\ Sorted(Loaded, AskedBackward)
    /\ Len(Loaded) = Min(AskedLimit + 1, Cardinality(Eligible))
    /\ \A i \in 1..Len(Loaded) : Loaded[i] \in Eligible

\* C11 as stated: every call issues exactly one query, for limit + 1 rows
\* sorted ascending by (created_at, id) when forward and descending on both
\* when backward.
C11_OneQueryPerCall ==
    result.called => OneSortedLoad

\* C11 as amended: every call issues at most one query; a call whose anchor
\* is absent or decodes issues exactly one, for limit + 1 rows sorted
\* ascending by (created_at, id) when forward and descending on both when
\* backward; a call whose anchor does not decode issues none.
C11_OneQueryUnlessAnchorFails ==
    result.called =>
        IF AskedAnchor.some /\ AskedAnchor.val \in BadCursors
            THEN result.loads = <<>>
            ELSE OneSortedLoad

\* C11 witness: a backward call whose query returned three rows, whose
\* created_at order differs from their id order
C11_Witness ==
    /\ result.called
    /\ AskedBackward
    /\ Len(result.loads) = 1
    /\ Len(Loaded) = 3
    /\ Loaded[1].id < Loaded[2].id

\* C15 as stated: when there are more rows, a backward call drops the element
\* at index 0 of the rows in query (descending) order and reverses the rest;
\* a forward call drops the last element in query order; either way the
\* dropped row is the one farthest from the anchor.
C15_DropFirstThenReverse ==
    (Returned /\ AskedFlag) =>
        /\ PageSeq = IF AskedBackward THEN Reverse(Remove(Loaded, 0))
                                       ELSE Remove(Loaded, Len(Loaded) - 1)
        /\ \A r \in PageRows :
                IF AskedBackward THEN KeysetLess(Loaded[1], r)
                                 ELSE KeysetLess(r, Loaded[Len(Loaded)])

\* C15 as amended: when there are more rows, a backward call first reverses
\* the rows of the query into ascending order and then drops index 0 of the
\* reversed rows, which is the last element in query (descending) order; a
\* forward call drops the last element in query order; either way the dropped
\* row is the lookahead row, the one farthest from the anchor, and the rows
\* kept are the limit rows nearest to it.
C15_ReverseThenDropFirst ==
    (Returned /\ AskedFlag) =>
        /\ Len(Loaded) = AskedLimit + 1
        /\ PageSeq = IF AskedBackward THEN Remove(Reverse(Loaded), 0)
                                       ELSE Remove(Loaded, Len(Loaded) - 1)
        /\ Loaded[Len(Loaded)] \notin PageRows
        /\ \A r \in PageRows :
                IF AskedBackward THEN KeysetLess(Loaded[Len(Loaded)], r)
                                 ELSE KeysetLess(r, Loaded[Len(Loaded)])

\* C15 witness: a backward page of two rows cut from three loaded rows, which
\* keeps the element at index 0 of the query order
C15_Witness ==
    /\ Returned
    /\ AskedBackward
    /\ result.page_info.has_previous_page
    /\ Len(Loaded) = 3
    /\ Len(result.nodes) = 2
    /\ Loaded[1] \in PageRows

-----------------------------------------------------------------------------
(* The codec as a state machine: a cursor is supplied from outside or made *)
(* by to_cursor, and from_cursor is applied to it.                         *)

\* bytes the strings are built from: ':', 'a', and the two bytes of U+00E9
\* (each of which alone is not UTF-8)
CodecBytes == {Colon, 97, 195, 169}

ByteSeqs(n) == UNION {[1..m -> CodecBytes] : m \in 0..n}

\* the values a &str argument can take
Strs == {s \in ByteSeqs(MaxLen) : IsUtf8(s)}

\* cursor texts of cursor.rs's tests: "MV9lZmVm", "VXNlcjox",
\* "MToyMDIwLTAxLTAxVDEzOjA0OjAwWg=="
TestCursors ==
    { <<77, 86, 57, 108, 90, 109, 86, 109>>,
      <<86, 88, 78, 108, 99, 106, 111, 120>>,
      <<77, 84, 111, 121, 77, 68, 73, 119, 76, 84, 65, 120, 76, 84, 65, 120,
        86, 68, 69, 122, 79, 106, 65, 48, 79, 106, 65, 119, 87, 103, 61, 61>> }

\* texts that are not base64: "M" (one symbol), "____" (symbols outside the
\* alphabet), "YR==" (non-zero trailing bits)
NotBase64 == { <<77>>, <<95, 95, 95, 95>>, <<89, 82, 61, 61>> }

\* cursor texts a client may send
ForeignCursors ==
    {Base64Encode(b) : b \in ByteSeqs(MaxLen + 1)} \cup TestCursors \cup NotBase64

InitConn ==
    /\ table = {}
    /\ args = NotCalled
    /\ result = NotCalled
    /\ is_done = {}
    /\ InitWalkIdle

InitCursor ==
    /\ key = <<>>
    /\ value = <<>>
    /\ cursor \in ForeignCursors
    /\ origin = "foreign"
    /\ decoded = NotCalled
    /\ InitConn
    /\ InitAuthIdle
    /\ InitDbIdle

\* a caller of to_cursor(k, v)
ToCursor(k, v) ==
    /\ key' = k
    /\ value' = v
    /\ cursor' = to_cursor(k, v)
    /\ origin' = "encoded"
    /\ decoded' = NotCalled
    /\ UNCHANGED <<connVars, otherVars>>

\* a caller of from_cursor(cursor)
FromCursor ==
    /\ ~decoded.called
    /\ decoded' = [called |-> TRUE, res |-> from_cursor(cursor)]
    /\ UNCHANGED <<key, value, cursor, origin, connVars, otherVars>>

NextCursor ==
    \/ \E k \in Strs, v \in Strs : ToCursor(k, v)
    \/ FromCursor

SpecCursor == InitCursor /\ [][NextCursor]_vars

HasColon(s) == \E i \in 1..Len(s) : s[i] = Colon

\* C1: decoding a cursor made by to_cursor(key, order) from a key without ':'
\* gives back Ok((key, order)), whatever the order string is.
C1_RoundTrip ==
    (origin = "encoded" /\ decoded.called /\ ~HasColon(key))
        => decoded.res = CursorOk(key, value)

\* C1 witness: a round trip whose order string contains ':'
C1_Witness ==
    /\ origin = "encoded"
    /\ decoded.called
    /\ ~HasColon(key)
    /\ Len(key) > 0
    /\ HasColon(value)
    /\ decoded.res = CursorOk(key, value)

\* the text a cursor decodes to, when it is base64 of UTF-8
TextOf(c) == Base64Decode(c).bytes
IsText(c) == Base64Decode(c).ok /\ IsUtf8(Base64Decode(c).bytes)

\* C2: from_cursor cuts the decoded text at its first ':' only: no ':' is
\* InvalidFormat; otherwise the key is the text before the first ':' and the
\* order everything after it, later ':' included.
C2_FirstColon ==
    (decoded.called /\ IsText(cursor)) =>
        LET t == TextOf(cursor)
        IN  IF ~HasColon(t)
                THEN decoded.res = CursorErr(<<"InvalidFormat">>)
                ELSE \E i \in 1..Len(t) :
                        /\ t[i] = Colon
                        /\ \A j \in 1..(i - 1) : t[j] # Colon
                        /\ decoded.res = CursorOk(SubSeq(t, 1, i - 1),
                                                  SubSeq(t, i + 1, Len(t)))

\* C2 witness: a foreign cursor whose text has more than one ':' was decoded
C2_Witness ==
    /\ origin = "foreign"
    /\ decoded.called
    /\ decoded.res.ok
    /\ HasColon(decoded.res.order)
    /\ Len(decoded.res.key) > 0

-----------------------------------------------------------------------------
(* The opaque ids as a state machine: ids are made from a type name and a   *)
(* Uuid or come from outside, and are decoded. key holds the type name,     *)
(* value the Uuid's bytes, cursor the id's text.                            *)

\* the nil Uuid, the all-ones Uuid, and two whose tokens use every kind of
\* character of the alphabet ('-' and '_' included)
Uuids ==
    { [i \in 1..UuidLen |-> 0],
      [i \in 1..UuidLen |-> 255],
      [i \in 1..UuidLen |-> (i * 17) % 256],
      [i \in 1..UuidLen |-> IF i % 3 = 1 THEN 251 ELSE IF i % 3 = 2 THEN 239 ELSE 190] }

\* tokens that are no Uuid's: empty, too short, too long, one symbol short of
\* a byte boundary, written with the standard alphabet and padding, with a
\* character outside the alphabet
BadTokens ==
    { <<>>,
      to_blob([i \in 1..(UuidLen - 1) |-> 255]),
      to_blob([i \in 1..(UuidLen + 1) |-> 0]),
      SubSeq(to_blob([i \in 1..UuidLen |-> 0]), 1, 21),
      to_blob_standard([i \in 1..UuidLen |-> 255]),
      [i \in 1..22 |-> IF i = 5 THEN Colon ELSE 65] }

\* id texts a client may send
ForeignIds ==
    ForeignCursors \cup {to_cursor(<<97>>, t) : t \in BadTokens}

InitUuid ==
    /\ key = <<>>
    /\ value = <<>>
    /\ cursor \in ForeignIds
    /\ origin = "foreign"
    /\ decoded = NotCalled
    /\ InitConn
    /\ InitAuthIdle
    /\ InitDbIdle

\* a caller of to_id(type_name, id)
ToId(type_name, id) ==
    /\ key' = type_name
    /\ value' = id
    /\ cursor' = to_id(type_name, id)
    /\ origin' = "encoded"
    /\ decoded' = NotCalled
    /\ UNCHANGED <<connVars, otherVars>>

\* a caller of from_id(cursor)
FromId ==
    /\ ~decoded.called
    /\ decoded' = [called |-> TRUE, res |-> from_id(cursor)]
    /\ UNCHANGED <<key, value, cursor, origin, connVars, otherVars>>

NextUuid ==
    \/ \E type_name \in Strs, id \in Uuids : ToId(type_name, id)
    \/ FromId

SpecUuid == InitUuid /\ [][NextUuid]_vars

\* the characters of the URL-safe alphabet
UrlSafeAlphabet == (65..90) \cup (97..122) \cup (48..57) \cup {45, 95}

\* t is the compact token of some Uuid: 22 characters of the URL-safe
\* alphabet, the last of which carries only the two remaining bits
IsToken(t) ==
    /\ Len(t) = 22
    /\ \A i \in 1..Len(t) : t[i] \in UrlSafeAlphabet
    /\ t[22] \in {65, 81, 103, 119}

\* C12: from_id(to_id(type_name, u)) = Ok((type_name, u)) for every type name
\* without ':' and every Uuid u; from_id of a text that is no valid cursor
\* fails with UuidError::Cusor wrapping the cursor error; from_id of a valid
\* cursor whose order part is no Uuid's token fails with UuidError::Convert.
C12_IdRoundTrip ==
    decoded.called =>
        LET c == from_cursor(cursor)
        IN  /\ (origin = "encoded" /\ ~HasColon(key))
                    => decoded.res = IdOk(key, value)
            /\ ~c.ok => decoded.res = IdErr(<<"Cusor", c.err>>)
            /\ (c.ok /\ ~IsToken(c.order)) => decoded.res = IdErr(<<"Convert">>)

\* C12 witness: the id of a non-nil Uuid under a non-empty type name was
\* decoded back
C12_Witness ==
    /\ origin = "encoded"
    /\ decoded.called
    /\ Len(key) > 0
    /\ ~HasColon(key)
    /\ value[1] = 251
    /\ decoded.res = IdOk(key, value)

\* ids of every failing kind are decoded: no cursor, and no token
C12_WitnessErrors ==
    /\ decoded.called
    /\ ~decoded.res.ok
    /\ decoded.res.err = <<"Convert">>
    /\ Len(from_cursor(cursor).order) = 22

-----------------------------------------------------------------------------
(* context.rs: Context::ensure_is_authorized *)

\* enum UserRole, enum UserState (user.rs)
UserRoles == {"Root", "Admin", "Staff", "User"}
UserStates == {"Enabled", "Disabled", "ReadOnly"}

\* struct User, reduced to the two fields the check reads
Users == [role : UserRoles, state : UserStates]

\* Context.user: Option<User>
ContextUsers == {None} \cup {Some(u) : u \in Users}

\* roles: Option<Vec<UserRole>>
RECURSIVE RoleVecs(_)
RoleVecs(n) ==
    IF n = 0 THEN {<<>>}
    ELSE RoleVecs(n - 1) \cup
         {Append(v, r) : v \in {w \in RoleVecs(n - 1) : Len(w) = n - 1}, r \in UserRoles}
RolesArgs == {None} \cup {Some(v) : v \in RoleVecs(MaxRoles)}

AuthOk(u) == [ok |-> TRUE, user |-> u]
AuthErr(e) == [ok |-> FALSE, err |-> e]

\* roles.iter().any(|role| &user.role == role)
any_role(roles, role) == \E i \in 1..Len(roles) : role = roles[i]

\* mutant of ensure_is_authorized: the state is looked at before the roles
ensure_is_authorized_state_first(user, roles) ==
    IF ~user.some THEN AuthErr(<<"Anonymous">>)
    ELSE IF user.val.state # "Enabled" THEN AuthErr(<<"UserState", user.val.state>>)
    ELSE IF roles.some /\ ~any_role(roles.val, user.val.role) THEN AuthErr(<<"Forbidden">>)
    ELSE AuthOk(user.val)

\* pub fn ensure_is_authorized(&self, roles: Option<Vec<UserRole>>)
\*     -> Result<&User, ContextError>
ensure_is_authorized(user, roles) ==
    IF ~user.some THEN AuthErr(<<"Anonymous">>)
    ELSE LET authorized == IF roles.some THEN any_role(roles.val, user.val.role)
                                         ELSE TRUE
         IN  IF ~authorized THEN AuthErr(<<"Forbidden">>)
             ELSE IF user.val.state = "Enabled" THEN AuthOk(user.val)
             ELSE AuthErr(<<"UserState", user.val.state>>)

\* a context is built with or without a user
InitAuth ==
    /\ auth \in {[called |-> FALSE, user |-> u] : u \in ContextUsers}
    /\ InitCodecIdle
    /\ InitConn
    /\ InitDbIdle

\* a handler checks the context against the roles it accepts
EnsureIsAuthorized(roles) ==
    /\ ~auth.called
    /\ auth' = [called |-> TRUE, user |-> auth.user, roles |-> roles,
                res |-> ensure_is_authorized(auth.user, roles)]
    /\ UNCHANGED <<codecVars, connVars, is_done, walk, db>>

\* the handler is done with the outcome
AuthDone ==
    /\ auth.called
    /\ auth' = [called |-> FALSE, user |-> auth.user]
    /\ UNCHANGED <<codecVars, connVars, is_done, walk, db>>

NextAuth ==
    \/ \E roles \in RolesArgs : EnsureIsAuthorized(roles)
    \/ AuthDone

SpecAuth == InitAuth /\ [][NextAuth]_vars

\* the role is among the roles asked for
RoleAccepted ==
    auth.user.val.role \in {auth.roles.val[i] : i \in 1..Len(auth.roles.val)}

\* C13: ensure_is_authorized returns Ok(user) exactly when a user is present,
\* roles is None or contains the user's role, and the user's state is Enabled;
\* otherwise the error is Anonymous when there is no user, else Forbidden when
\* roles is given and does not contain the user's role, else UserState(state):
\* a role mismatch is reported before a state that is not Enabled.
C13_Authorized ==
    auth.called =>
        /\ auth.res.ok = (/\ auth.user.some
                          /\ (auth.roles.some => RoleAccepted)
                          /\ auth.user.val.state = "Enabled")
        /\ auth.res.ok => auth.res = AuthOk(auth.user.val)
        /\ ~auth.res.ok =>
                auth.res.err =
                    IF ~auth.user.some THEN <<"Anonymous">>
                    ELSE IF auth.roles.some /\ ~RoleAccepted THEN <<"Forbidden">>
                    ELSE <<"UserState", auth.user.val.state>>

\* C13 witness: a disabled user whose role is not among the two roles asked
\* for is told Forbidden
C13_Witness ==
    /\ auth.called
    /\ auth.user.some
    /\ auth.user.val.state = "Disabled"
    /\ auth.roles.some
    /\ Len(auth.roles.val) = 2
    /\ ~RoleAccepted
    /\ auth.res = AuthErr(<<"Forbidden">>)

-----------------------------------------------------------------------------
(* migration.rs: reset *)

\* "_dev"
DevSuffix == <<95, 100, 101, 118>>

\* str::ends_with
ends_with(text, suffix) ==
    /\ Len(text) >= Len(suffix)
    /\ SubSeq(text, Len(text) - Len(suffix) + 1, Len(text)) = suffix

\* DatabaseConnection.name: Option<String>. The names are the texts over the
\* characters of "_dev", and "timada" and "timada_dev" of the tests.
RECURSIVE NameTexts(_)
NameTexts(n) ==
    IF n = 0 THEN {<<>>}
    ELSE NameTexts(n - 1) \cup
         {Append(t, c) : t \in {w \in NameTexts(n - 1) : Len(w) = n - 1},
                         c \in {95, 100, 101, 118}}
Timada == <<116, 105, 109, 97, 100, 97>>
ConfigNames ==
    {None} \cup {Some(t) : t \in NameTexts(MaxNameLen) \cup {Timada, Timada \o DevSuffix}}

\* what the database server answers to each step of one reset: whether the
\* three connections can be opened, whether each statement succeeds, and
\* whether the database exists ("yes", "no", or the lookup fails: "err")
Envs ==
    [establish_named : BOOLEAN, kill : BOOLEAN, establish_server : BOOLEAN,
     exists : {"yes", "no", "err"}, drop : BOOLEAN, create : BOOLEAN,
     establish_new : BOOLEAN, migrate : BOOLEAN]

ResetOk(log) == [ok |-> TRUE, log |-> log]
ResetErr(e, log) == [ok |-> FALSE, err |-> e, log |-> log]

\* drop_database_if_exists, continued by the rest of reset (lines 130-133)
reset_recreate(name, env, log) ==
    LET looked == Append(log, <<"pg_database_exists", name>>)
        dropped == IF env.exists = "yes" THEN Append(looked, <<"drop_database", name>>)
                                         ELSE looked
        created == Append(dropped, <<"create_database", name>>)
        opened == Append(created, <<"establish", Some(name)>>)
        migrated == Append(opened, <<"migrate", "migrations">>)
    IN  IF env.exists = "err" THEN ResetErr(<<"Diesel">>, looked)
        ELSE IF env.exists = "yes" /\ ~env.drop THEN ResetErr(<<"Diesel">>, dropped)
        ELSE IF ~env.create THEN ResetErr(<<"Diesel">>, created)
        ELSE IF ~env.establish_new THEN ResetErr(<<"DieselConnection">>, opened)
        ELSE IF ~env.migrate THEN ResetErr(<<"RunMigrations">>, migrated)
        ELSE ResetOk(migrated)

\* mutant of reset: the connection is opened before the name is looked at
reset_connect_first(name, env) ==
    LET opened == <<<<"establish", name>>>>
    IN  IF ~env.establish_named THEN ResetErr(<<"DieselConnection">>, opened)
        ELSE IF ~name.some THEN ResetErr(<<"MissingDatabaseName">>, opened)
        ELSE IF ~ends_with(name.val, DevSuffix)
            THEN ResetErr(<<"FixtureDenied", name.val>>, opened)
        ELSE LET killed == Append(opened, <<"kill_database_connections", name.val>>)
                 server == Append(killed, <<"establish", None>>)
             IN  IF ~env.kill THEN ResetErr(<<"Diesel">>, killed)
                 ELSE IF ~env.establish_server
                     THEN ResetErr(<<"DieselConnection">>, server)
                 ELSE reset_recreate(name.val, env, server)

\* pub fn reset(config: &DatabaseConnection) -> MigrationResult<()>, with the
\* database actions it performs, in order
reset(name, env) ==
    IF ~name.some THEN ResetErr(<<"MissingDatabaseName">>, <<>>)
    ELSE IF ~ends_with(name.val, DevSuffix)
        THEN ResetErr(<<"FixtureDenied", name.val>>, <<>>)
    ELSE LET opened == <<<<"establish", name>>>>
             killed == Append(opened, <<"kill_database_connections", name.val>>)
             server == Append(killed, <<"establish", None>>)
         IN  IF ~env.establish_named THEN ResetErr(<<"DieselConnection">>, opened)
             ELSE IF ~env.kill THEN ResetErr(<<"Diesel">>, killed)
             ELSE IF ~env.establish_server
                 THEN ResetErr(<<"DieselConnection">>, server)
             ELSE reset_recreate(name.val, env, server)

\* a configuration is given
InitReset ==
    /\ db \in {[called |-> FALSE, name |-> n] : n \in ConfigNames}
    /\ InitCodecIdle
    /\ InitConn
    /\ InitAuthIdle

\* reset(config) runs against a server that answers as env tells
Reset(env) ==
    /\ ~db.called
    /\ db' = [called |-> TRUE, name |-> db.name, res |-> reset(db.name, env)]
    /\ UNCHANGED <<codecVars, connVars, is_done, walk, auth>>

\* the caller is done with the outcome
ResetDone ==
    /\ db.called
    /\ db' = [called |-> FALSE, name |-> db.name]
    /\ UNCHANGED <<codecVars, connVars, is_done, walk, auth>>

NextReset ==
    \/ /\ ~db.called
       /\ \E env \in Envs : Reset(env)
    \/ ResetDone

SpecReset == InitReset /\ [][NextReset]_vars

\* the name is some text followed by "_dev"
IsDevName(name) ==
    \E i \in 0..Len(name) :
        name = SubSeq(name, 1, i) \o <<95, 100, 101, 118>>

\* C14: reset on a configuration whose database name does not end with
\* "_dev" returns FixtureDenied(name) and performs no database action at all;
\* on a configuration with no name it returns MissingDatabaseName, also
\* before any database action.
C14_ResetDenied ==
    db.called =>
        /\ ~db.name.some =>
                db.res = [ok |-> FALSE, err |-> <<"MissingDatabaseName">>, log |-> <<>>]
        /\ (db.name.some /\ ~IsDevName(db.name.val)) =>
                db.res = [ok |-> FALSE, err |-> <<"FixtureDenied", db.name.val>>,
                          log |-> <<>>]

\* C14 witness: reset was refused for the database "timada" of the test
C14_Witness ==
    /\ db.called
    /\ db.name = Some(Timada)
    /\ db.res.err = <<"FixtureDenied", Timada>>
    /\ db.res.log = <<>>

\* a reset of "timada_dev" that went through
C14_WitnessReset ==
    /\ db.called
    /\ db.name = Some(Timada \o DevSuffix)
    /\ db.res.ok
    /\ Len(db.res.log) = 7

-----------------------------------------------------------------------------
(* A client pages through the table: forward with first = n and after = the *)
(* previous page's end_cursor while has_next_page, or backward with         *)
(* last = n and before = the previous page's start_cursor while             *)
(* has_previous_page.                                                       *)

PageSizes == 1..MaxLimit

\* the walk before its first call
WalkStart(backward, n, tbl) ==
    [called |-> TRUE, backward |-> backward, n |-> n, pc |-> "paging",
     anchor |-> None, pages |-> <<>>,
     kept |-> tbl, ever |-> {r.id : r \in tbl}, writes |-> 0]

InitWalk ==
    /\ table \in Tables
    /\ walk \in {WalkStart(b, n, table) : b \in BOOLEAN, n \in PageSizes}
    /\ args = NotCalled
    /\ result = NotCalled
    /\ is_done = {}
    /\ InitCodecIdle
    /\ InitAuthIdle
    /\ InitDbIdle

\* what the client keeps of the answer r to its call: a page's rows, the
\* cursor to go on from, and whether to go on
Received(w, r) ==
    IF r.kind = "panic" THEN [w EXCEPT !.pc = "panicked"]
    ELSE IF r.kind = "err" THEN [w EXCEPT !.pc = "failed"]
    ELSE [w EXCEPT
            !.pages = Append(@, [i \in 1..Len(r.nodes) |-> r.nodes[i].node]),
            !.anchor = IF w.backward THEN r.page_info.start_cursor
                                     ELSE r.page_info.end_cursor,
            !.pc = IF (IF w.backward THEN r.page_info.has_previous_page
                                     ELSE r.page_info.has_next_page)
                       THEN "paging" ELSE "done"]

\* the client's next call: last = n and before = its cursor when backward,
\* first = n and after = its cursor when forward
FetchPage(checks) ==
    /\ walk.called
    /\ walk.pc = "paging"
    /\ walk' = Received(walk,
                    resolve_connection(table,
                        IF walk.backward THEN None ELSE Some(walk.n),
                        IF walk.backward THEN None ELSE walk.anchor,
                        IF walk.backward THEN Some(walk.n) ELSE None,
                        IF walk.backward THEN walk.anchor ELSE None,
                        checks))
    /\ UNCHANGED <<table, args, result, is_done, codecVars, auth, db>>

NextWalk == \E checks \in BOOLEAN : FetchPage(checks)

SpecWalk == InitWalk /\ [][NextWalk]_vars

\* the pages one after another, in call order
RECURSIVE Concat(_)
Concat(pages) ==
    IF Len(pages) = 0 THEN <<>> ELSE pages[1] \o Concat(Tail(pages))

\* the rows of a sequence are in strictly ascending (created_at, id) order
AscendingRows(rows) ==
    \A i \in 1..Len(rows), j \in 1..Len(rows) :
        i < j => KeysetLess(rows[i], rows[j])

RowsOf(rows) == {rows[i] : i \in 1..Len(rows)}

\* no more calls were made than pages are needed for the rows of the table
CallsBounded ==
    Len(walk.pages) <= 1 \/ (Len(walk.pages) - 1) * walk.n < Cardinality(table)

\* C16: a forward traversal of a fixed dataset with first = n (n >= 1), no
\* anchor at first and then after = the previous end_cursor while
\* has_next_page, ends after finitely many calls, and its pages one after
\* another are the whole dataset in ascending (created_at, id) order, each
\* row once, rows with equal created_at included.
C16_ForwardTraversal ==
    (walk.called /\ ~walk.backward) =>
        /\ walk.pc \in {"paging", "done"}
        /\ CallsBounded
        /\ walk.pc = "done" =>
            /\ AscendingRows(Concat(walk.pages))
            /\ RowsOf(Concat(walk.pages)) = table

\* C17: a backward traversal of a fixed dataset with last = n (n >= 1), no
\* anchor at first and then before = the previous start_cursor while
\* has_previous_page, ends after finitely many calls, each page is in
\* ascending order, and the pages in reverse call order one after another
\* are the whole dataset in ascending order, no row skipped or repeated.
C17_BackwardTraversal ==
    (walk.called /\ walk.backward) =>
        /\ walk.pc \in {"paging", "done"}
        /\ CallsBounded
        /\ \A i \in 1..Len(walk.pages) : AscendingRows(walk.pages[i])
        /\ AscendingRows(Concat(Reverse(walk.pages)))
        /\ walk.pc = "done" => RowsOf(Concat(Reverse(walk.pages))) = table

\* C17 witness: a backward traversal by pages of two rows has ended after its
\* second page, over three rows two of which share created_at
C17_Witness ==
    /\ walk.called
    /\ walk.backward
    /\ walk.n = 2
    /\ walk.pc = "done"
    /\ Len(walk.pages) = 2
    /\ Cardinality(table) = 3
    /\ \E a \in table, b \in table : a # b /\ a.created_at = b.created_at

\* a forward traversal that ended with every row of a three-row table
C16_WitnessDone ==
    /\ walk.called
    /\ ~walk.backward
    /\ walk.pc = "done"
    /\ Len(walk.pages) = 3
    /\ Cardinality(table) = 3

-----------------------------------------------------------------------------
(* Calls of resolve_connection! on a $table with a caller filter *)

\* the caller passes todos.into_boxed(), or todos.filter(is_done.eq(true))
CallerFilters == {None, Some(IsDone)}

\* the cursors of rows, as anchors
RowAnchorArgs == {None} \cup {Some(c) : c \in RowCursors}

InitFilter ==
    /\ table \in Tables
    /\ is_done \in SUBSET {r.id : r \in table}
    /\ args = NotCalled
    /\ result = NotCalled
    /\ InitCodecIdle
    /\ InitWalkIdle
    /\ InitAuthIdle
    /\ InitDbIdle

\* one call of a function that expands resolve_connection! on the caller's
\* query
ResolveFiltered(where, first, after, last, before, checks) ==
    /\ ~result.called
    /\ args' = [called |-> TRUE, first |-> first, after |-> after,
                last |-> last, before |-> before, filter |-> where]
    /\ result' = resolve_connection_where(table, is_done, where,
                                          first, after, last, before, checks)
    /\ UNCHANGED <<table, codecVars, otherVars>>

\* the calls made are forward calls with first and after, and backward calls
\* with last and before
NextFilter ==
    \/ /\ ~result.called
       /\ \E where \in CallerFilters, limit \in LimitArgs,
             anchor \in RowAnchorArgs, forward \in BOOLEAN, checks \in BOOLEAN :
                ResolveFiltered(where,
                                IF forward THEN limit ELSE None,
                                IF forward THEN anchor ELSE None,
                                IF forward THEN None ELSE limit,
                                IF forward THEN None ELSE anchor,
                                checks)
    \/ Drop

SpecFilter == InitFilter /\ [][NextFilter]_vars

\* C18: when $table carries the caller filter is_done = true and an anchor is
\* supplied, every row of the returned page satisfies the filter and lies
\* strictly beyond the anchor: the tie-break branch (created_at equal, id
\* beyond the anchor's) admits no row that violates the filter.
C18_CallerFilterKept ==
    (Returned /\ args.filter.some /\ AskedAnchor.some) =>
        \A r \in PageRows : r.id \in is_done /\ r \in Eligible

\* without a caller filter the call is the call of resolve_connection
FilterAbsentIsPlain ==
    (result.called /\ ~args.filter.some) =>
        \E checks \in BOOLEAN :
            result = resolve_connection(table, args.first, args.after,
                                        args.last, args.before, checks)

\* with a caller filter and no anchor, or with an anchor and no tie on
\* created_at, the page holds only rows that satisfy the filter
FilterKeptWithoutTie ==
    (Returned /\ args.filter.some) =>
        \A r \in PageRows :
            \/ r.id \in is_done
            \/ /\ AskedAnchor.some
               /\ r.created_at = RowOfCursor[AskedAnchor.val].created_at

-----------------------------------------------------------------------------
(* A forward traversal while other processes insert and delete rows between *)
(* the page fetches. A row's id and created_at never change, and an id is   *)
(* never given to a second row.                                             *)

InitWrites ==
    /\ table \in Tables
    /\ walk \in {WalkStart(FALSE, n, table) : n \in PageSizes}
    /\ args = NotCalled
    /\ result = NotCalled
    /\ is_done = {}
    /\ InitCodecIdle
    /\ InitAuthIdle
    /\ InitDbIdle

\* another process inserts a row under an id not used before
InsertRow(row) ==
    /\ walk.called
    /\ walk.pc = "paging"
    /\ walk.writes < MaxWrites
    /\ row.id \notin walk.ever
    /\ table' = table \cup {row}
    /\ walk' = [walk EXCEPT !.ever = @ \cup {row.id}, !.writes = @ + 1]
    /\ UNCHANGED <<args, result, is_done, codecVars, auth, db>>

\* another process deletes a row
DeleteRow(row) ==
    /\ walk.called
    /\ walk.pc = "paging"
    /\ walk.writes < MaxWrites
    /\ row \in table
    /\ table' = table \ {row}
    /\ walk' = [walk EXCEPT !.kept = @ \ {row}, !.writes = @ + 1]
    /\ UNCHANGED <<args, result, is_done, codecVars, auth, db>>

NextWrites ==
    \/ \E checks \in BOOLEAN : FetchPage(checks)
    \/ \E row \in Todos : InsertRow(row)
    \/ \E row \in Todos : DeleteRow(row)

SpecWrites == InitWrites /\ [][NextWrites]_vars

\* how many times the row stands on the pages received
Occurrences(row) ==
    Cardinality({i \in 1..Len(Concat(walk.pages)) : Concat(walk.pages)[i] = row})

\* every row of a later page is strictly greater than every row of all
\* earlier pages, and every row present all along was returned exactly once
\* when the traversal has ended
PagesAdvance ==
    /\ AscendingRows(Concat(walk.pages))
    /\ walk.pc = "done" => \A row \in walk.kept : Occurrences(row) = 1

\* C19: in a forward traversal during which other processes insert or delete
\* rows between the page fetches, every row of a later page is strictly
\* greater than every row of all earlier pages, so no row is returned on two
\* pages; the traversal goes on when the anchor row itself has been deleted;
\* and every row present during the whole traversal is returned exactly once.
C19_TraversalUnderWrites ==
    walk.called =>
        /\ walk.pc \in {"paging", "done"}
        /\ PagesAdvance

\* a traversal that went on after its anchor row was deleted, and ended
WritesWitness ==
    /\ walk.called
    /\ walk.pc = "done"
    /\ Len(walk.pages) = 2
    /\ walk.pages[1] # <<>>
    /\ walk.pages[1][Len(walk.pages[1])] \notin table
    /\ walk.pages[2] # <<>>

=============================================================================
